---- MODULE Spec2Model ----
(***************************************************************************)
(* Model of main_memory_friendly.go: the upload handler, its per-file      *)
(* workers, the process-wide semaphore channel `sem`, the process-wide     *)
(* sync.WaitGroup `wg`, the per-request result channel and the process-wide *)
(* image cache.                                                            *)
(***************************************************************************)
EXTENDS Integers, Sequences, FiniteSets, TLC

\* ------------------------------------------------------------------ bounds
\* Number of requests handled concurrently by the server.
NumRequests == 2
\* Largest number of parts under the form key "files" in one request.
MaxFiles == 2
\* Largest number of files submitted by all the requests together.
MaxTotalFiles == 3
\* Capacity of the semaphore channel.  The source sets 10 (line 27); the
\* model scales it so that the requests above can saturate the gate.
CONCURRENT_LIMIT == 2

\* --------------------------------------------------------------- constants
MAX_UPLOAD_SIZE == 4194304
TargetDx == 1920
TargetDy == 1080

Reqs == 1 .. NumRequests
Idxs == 1 .. MaxFiles

\* ------------------------------------------------------------ input values
Methods == {"POST", "GET"}
Stems == {"a"}
\* One allowed extension in upper case (the check lowers it) and one that is
\* not allowed.
Exts == {".JPG", ".gif"}
Sizes == {MAX_UPLOAD_SIZE, MAX_UPLOAD_SIZE + 1}
\* Dimensions a decoded image may have before the resize step.
Dims == {<<TargetDx, TargetDy>>, <<100, 100>>}

\* A file name "stem[_uuid]ext"; uuid 0 stands for "no generated suffix".
FileName(stem, uuid, ext) == [stem |-> stem, uuid |-> uuid, ext |-> ext]

\* A multipart.FileHeader: Filename, Size, and whether Open() succeeds.
FileHeaders ==
    [Filename : {FileName(s, 0, e) : s \in Stems, e \in Exts},
     Size : Sizes,
     openable : BOOLEAN]

FileLists == UNION {[1 .. n -> FileHeaders] : n \in 0 .. MaxFiles}

\* ----------------------------------------------------------- pure helpers
\* filepath.Ext: the suffix beginning at the final dot.
Ext(name) == name.ext

\* strings.ToLower on the extensions that occur.
ToLower(s) ==
    CASE s = ".PNG" -> ".png"
      [] s = ".JPG" -> ".jpg"
      [] s = ".JPEG" -> ".jpeg"
      [] s = ".GIF" -> ".gif"
      [] OTHER -> s

\* uuid.New(): a fresh value per call; each unit calls it once.
NewUuid(r, i) == r * 10 + i

\* Mutant of generateUniqueFileName: the uuid is left out of the name.
generateUniqueFileName_NoUuid(originalName, uuid) ==
    FileName(originalName.stem, 0, Ext(originalName))

\* generateUniqueFileName: name without its extension, "_", uuid, extension.
generateUniqueFileName(originalName, uuid) ==
    FileName(originalName.stem, uuid, Ext(originalName))

UploadResult(name, status, error) ==
    [FileName |-> name, Status |-> status, Error |-> error]

NoResult == UploadResult(FileName("", 0, ""), "", "")

ErrOpen == "Could not open uploaded file"
ErrSize == "File size exceeds 4 MB limit"
ErrExt == "Only .jpg, .jpeg, and .png files are allowed"
ErrDecode == "Error decoding image"
ErrCreate == "Could not create file"
ErrEncode == "Could not save resized image"

\* Mutant of ValidationError: the extension check is missing.
ValidationError_NoExtCheck(h) ==
    IF ~h.openable THEN ErrOpen
    ELSE IF h.Size > MAX_UPLOAD_SIZE THEN ErrSize
    ELSE ""

\* Mutant of ValidationError: the extension is checked before the size.
ValidationError_ExtBeforeSize(h) ==
    IF ~h.openable THEN ErrOpen
    ELSE IF ToLower(Ext(h.Filename)) \notin {".jpg", ".jpeg", ".png"} THEN ErrExt
    ELSE IF h.Size > MAX_UPLOAD_SIZE THEN ErrSize
    ELSE ""

\* The three synchronous checks of the dispatch loop, in source order; ""
\* means the file passes.
ValidationError(h) ==
    IF ~h.openable THEN ErrOpen
    ELSE IF h.Size > MAX_UPLOAD_SIZE THEN ErrSize
    ELSE IF ToLower(Ext(h.Filename)) \notin {".jpg", ".jpeg", ".png"} THEN ErrExt
    ELSE ""

NoImg == [src |-> <<0, 0>>, dx |-> 0, dy |-> 0]
Image(r, i, d) == [src |-> <<r, i>>, dx |-> d[1], dy |-> d[2]]

\* resize.Resize(1920, 1080, img, ...) applied when the bounds differ.
Resize(img) ==
    IF img.dx # TargetDx \/ img.dy # TargetDy
    THEN [img EXCEPT !.dx = TargetDx, !.dy = TargetDy]
    ELSE img

CacheKeys == {FileName(s, 0, e) : s \in Stems, e \in Exts}

\* ------------------------------------------------------------------- state
VARIABLES
    pc,         \* handler position per request
    method,     \* r.Method per request ("": not yet received)
    status,     \* HTTP status written per request (0: none yet)
    files,      \* r.MultipartForm.File["files"] per request
    idx,        \* position of the range loop per request
    results,    \* the results slice per request
    ch,         \* buffered contents of the request's result channel
    chClosed,   \* whether the request's channel has been closed
    response,   \* the JSON body written per request
    upc,        \* position of each file / worker goroutine
    uimg,       \* the worker's local variable img
    sem,        \* number of elements buffered in the semaphore channel
    wgCount,    \* WaitGroup counter
    wgWaiters,  \* WaitGroup waiter count
    wgSema,     \* permits of the WaitGroup's runtime semaphore
    imgCache,   \* cache key -> image (NoImg: absent)
    disk,       \* created output files: name, content, format
    sent,       \* the outcome each worker has sent (NoResult: none yet)
    crashed     \* the process died of a panic in a worker goroutine

vars == <<pc, method, status, files, idx, results, ch, chClosed, response,
          upc, uimg,
          sem, wgCount, wgWaiters, wgSema, imgCache, disk, sent, crashed>>

Units == Reqs \X Idxs

Init ==
    /\ pc = [r \in Reqs |-> "idle"]
    /\ method = [r \in Reqs |-> ""]
    /\ status = [r \in Reqs |-> 0]
    /\ files = [r \in Reqs |-> <<>>]
    /\ idx = [r \in Reqs |-> 1]
    /\ results = [r \in Reqs |-> <<>>]
    /\ ch = [r \in Reqs |-> <<>>]
    /\ chClosed = [r \in Reqs |-> FALSE]
    /\ response = [r \in Reqs |-> <<>>]
    /\ upc = [u \in Units |-> "none"]
    /\ uimg = [u \in Units |-> NoImg]
    /\ sem = 0
    /\ wgCount = 0
    /\ wgWaiters = 0
    /\ wgSema = 0
    /\ imgCache = [k \in CacheKeys |-> NoImg]
    /\ disk = {}
    /\ sent = [u \in Units |-> NoResult]
    /\ crashed = FALSE

\* Mutant of Cap: the channel is made without a buffer.
Cap_Unbuffered(r) == 0

\* Line 122, make(chan UploadResult, len(files)): the capacity of the
\* request's result channel.
Cap(r) == Len(files[r])

\* ----------------------------------------------------------- channel send
\* ch <- result on the request's buffered channel (capacity len(files)).
\* A send on a closed channel panics in the worker goroutine, which ends
\* the process.
CanSend(r) == chClosed[r] \/ Len(ch[r]) < Cap(r)

Send(u, res) ==
    IF chClosed[u[1]]
    THEN /\ crashed' = TRUE
         /\ UNCHANGED <<ch, sent>>
    ELSE /\ ch' = [ch EXCEPT ![u[1]] = Append(@, res)]
         /\ sent' = [sent EXCEPT ![u] = res]
         /\ crashed' = crashed

\* ------------------------------------------------------------ the handler
RECURSIVE SumLen(_, _)
SumLen(f, S) ==
    IF S = {} THEN 0
    ELSE LET r == CHOOSE x \in S : TRUE IN Len(f[r]) + SumLen(f, S \ {r})

\* Files submitted so far by all the requests.
Submitted == SumLen(files, Reqs)

\* Mutant of HandlerEntry: the method is not checked.
HandlerEntry_NoMethodCheck(r) ==
    /\ ~crashed
    /\ pc[r] = "idle"
    /\ \E m \in Methods, parseOk \in BOOLEAN, fs \in FileLists :
         /\ Len(fs) + Submitted <= MaxTotalFiles
         /\ method' = [method EXCEPT ![r] = m]
         /\ IF ~parseOk
            THEN /\ status' = [status EXCEPT ![r] = 413]
                 /\ pc' = [pc EXCEPT ![r] = "rejected"]
                 /\ files' = files
            ELSE IF Len(fs) = 0
            THEN /\ status' = [status EXCEPT ![r] = 400]
                 /\ pc' = [pc EXCEPT ![r] = "rejected"]
                 /\ files' = files
            ELSE /\ files' = [files EXCEPT ![r] = fs]
                 /\ pc' = [pc EXCEPT ![r] = "loop"]
                 /\ status' = status
    /\ UNCHANGED <<idx, results, ch, chClosed, response, upc, uimg, sem,
                   wgCount, wgWaiters, wgSema, imgCache, disk, crashed, sent>>

\* Lines 103-122: the request-level checks and the allocation of the
\* results slice and of the result channel.
HandlerEntry(r) ==
    /\ ~crashed
    /\ pc[r] = "idle"
    /\ \E m \in Methods, parseOk \in BOOLEAN, fs \in FileLists :
         /\ Len(fs) + Submitted <= MaxTotalFiles
         /\ method' = [method EXCEPT ![r] = m]
         /\ IF m # "POST"
            THEN /\ status' = [status EXCEPT ![r] = 405]
                 /\ pc' = [pc EXCEPT ![r] = "rejected"]
                 /\ files' = files
            ELSE IF ~parseOk
            THEN /\ status' = [status EXCEPT ![r] = 413]
                 /\ pc' = [pc EXCEPT ![r] = "rejected"]
                 /\ files' = files
            ELSE IF Len(fs) = 0
            THEN /\ status' = [status EXCEPT ![r] = 400]
                 /\ pc' = [pc EXCEPT ![r] = "rejected"]
                 /\ files' = files
            ELSE /\ files' = [files EXCEPT ![r] = fs]
                 /\ pc' = [pc EXCEPT ![r] = "loop"]
                 /\ status' = status
    /\ UNCHANGED <<idx, results, ch, chClosed, response, upc, uimg, sem,
                   wgCount, wgWaiters, wgSema, imgCache, disk, crashed, sent>>

\* wg.Add(1): the counter is raised; sync.WaitGroup panics in the caller
\* when the counter leaves zero while waiters are registered.
WgAddPanics == wgWaiters # 0 /\ wgCount + 1 = 1

\* Lines 124-142: one iteration of the range loop up to wg.Add(1).  A file
\* that fails a check is recorded and the loop continues.
LoopBody(r) ==
    /\ ~crashed
    /\ pc[r] = "loop"
    /\ idx[r] <= Len(files[r])
    /\ LET h == files[r][idx[r]]
           err == ValidationError(h)
       IN IF err # ""
          THEN /\ results' = [results EXCEPT ![r] =
                                Append(@, UploadResult(h.Filename, "failed", err))]
               /\ upc' = [upc EXCEPT ![<<r, idx[r]>>] = "rejected"]
               /\ idx' = [idx EXCEPT ![r] = @ + 1]
               /\ UNCHANGED <<pc, wgCount>>
          ELSE /\ wgCount' = wgCount + 1
               /\ pc' = [pc EXCEPT ![r] =
                           IF WgAddPanics THEN "panicked" ELSE "acquire"]
               /\ UNCHANGED <<results, upc, idx>>
    /\ UNCHANGED <<method, status, files, ch, chClosed, response, uimg, sem,
                   wgWaiters, wgSema, imgCache, disk, crashed, sent>>

\* Mutant of Dispatch: the gate admits one worker too many.
Dispatch_OffByOne(r) ==
    /\ ~crashed
    /\ pc[r] = "acquire"
    /\ sem <= CONCURRENT_LIMIT
    /\ sem' = sem + 1
    /\ upc' = [upc EXCEPT ![<<r, idx[r]>>] = "decode"]
    /\ idx' = [idx EXCEPT ![r] = @ + 1]
    /\ pc' = [pc EXCEPT ![r] = "loop"]
    /\ UNCHANGED <<method, status, files, results, ch, chClosed, response, uimg,
                   wgCount, wgWaiters, wgSema, imgCache, disk, crashed, sent>>

\* Lines 143-144: sem <- struct{}{} blocks while the channel is full; then
\* the worker goroutine is started and the loop moves on.
Dispatch(r) ==
    /\ ~crashed
    /\ pc[r] = "acquire"
    /\ sem < CONCURRENT_LIMIT
    /\ sem' = sem + 1
    /\ upc' = [upc EXCEPT ![<<r, idx[r]>>] = "decode"]
    /\ idx' = [idx EXCEPT ![r] = @ + 1]
    /\ pc' = [pc EXCEPT ![r] = "loop"]
    /\ UNCHANGED <<method, status, files, results, ch, chClosed, response, uimg,
                   wgCount, wgWaiters, wgSema, imgCache, disk, crashed, sent>>

\* Mutant of WgWait: the handler does not wait for the workers.
WgWait_DoesNotWait(r) ==
    /\ ~crashed
    /\ pc[r] = "loop"
    /\ idx[r] > Len(files[r])
    /\ pc' = [pc EXCEPT ![r] = "collect"]
    /\ UNCHANGED <<method, status, files, idx, results, ch, chClosed, response, upc,
                   uimg, sem, wgCount, wgWaiters, wgSema, imgCache, disk,
                   crashed, sent>>

\* Line 147, wg.Wait(): returns at once when the counter is zero, else
\* registers as a waiter and sleeps on the WaitGroup's semaphore.
WgWait(r) ==
    /\ ~crashed
    /\ pc[r] = "loop"
    /\ idx[r] > Len(files[r])
    /\ IF wgCount = 0
       THEN /\ pc' = [pc EXCEPT ![r] = "collect"]
            /\ wgWaiters' = wgWaiters
       ELSE /\ pc' = [pc EXCEPT ![r] = "sleeping"]
            /\ wgWaiters' = wgWaiters + 1
    /\ UNCHANGED <<method, status, files, idx, results, ch, chClosed, response, upc,
                   uimg, sem, wgCount, wgSema, imgCache, disk, crashed, sent>>

\* wg.Wait() resumed by a semaphore permit: it panics ("WaitGroup is reused
\* before previous Wait has returned") when the state is no longer zero.
\* net/http recovers a handler's panic: the request ends with no response.
WgWaitResume(r) ==
    /\ ~crashed
    /\ pc[r] = "sleeping"
    /\ wgSema > 0
    /\ wgSema' = wgSema - 1
    /\ pc' = [pc EXCEPT ![r] =
                IF wgCount # 0 \/ wgWaiters # 0 THEN "panicked" ELSE "collect"]
    /\ UNCHANGED <<method, status, files, idx, results, ch, chClosed, response, upc,
                   uimg, sem, wgCount, wgWaiters, imgCache, disk, crashed, sent>>

\* Mutant of Collect: the channel's outcomes are put in front of the
\* rejections recorded by the loop.
Collect_ChannelFirst(r) ==
    /\ ~crashed
    /\ pc[r] = "collect"
    /\ chClosed' = [chClosed EXCEPT ![r] = TRUE]
    /\ results' = [results EXCEPT ![r] = ch[r] \o @]
    /\ ch' = [ch EXCEPT ![r] = <<>>]
    /\ response' = [response EXCEPT ![r] = results'[r]]
    /\ status' = [status EXCEPT ![r] = 200]
    /\ pc' = [pc EXCEPT ![r] = "done"]
    /\ UNCHANGED <<method, files, idx, upc, uimg, sem, wgCount, wgWaiters, wgSema,
                   imgCache, disk, crashed, sent>>

\* Lines 148-154: close the channel, drain it into results, write the
\* response.
Collect(r) ==
    /\ ~crashed
    /\ pc[r] = "collect"
    /\ chClosed' = [chClosed EXCEPT ![r] = TRUE]
    /\ results' = [results EXCEPT ![r] = @ \o ch[r]]
    /\ ch' = [ch EXCEPT ![r] = <<>>]
    /\ response' = [response EXCEPT ![r] = results'[r]]
    /\ status' = [status EXCEPT ![r] = 200]
    /\ pc' = [pc EXCEPT ![r] = "done"]
    /\ UNCHANGED <<method, files, idx, upc, uimg, sem, wgCount, wgWaiters, wgSema,
                   imgCache, disk, crashed, sent>>

\* ------------------------------------------------------------- the worker
Header(u) == files[u[1]][u[2]]
CacheKey(u) == Header(u).Filename
UniqueName(u) == generateUniqueFileName(Header(u).Filename, NewUuid(u[1], u[2]))

\* The encoder chosen by the switch on ext (lines 88-93); no case matches
\* any other extension and nothing is written.
Encoder(ext) ==
    CASE ext \in {".jpg", ".jpeg"} -> "jpeg"
      [] ext = ".png" -> "png"
      [] OTHER -> "none"

\* The worker returns after its send: its locals are gone.
Return(u) ==
    /\ upc' = [upc EXCEPT ![u] = "release"]
    /\ uimg' = [uimg EXCEPT ![u] = NoImg]

\* Mutant of DecodeAndLookup: the decode failure returns without sending
\* an outcome.
DecodeAndLookup_SilentDecodeFailure(u) ==
    /\ ~crashed
    /\ upc[u] = "decode"
    /\ \E ok \in BOOLEAN, d \in Dims :
         IF ~ok
         THEN /\ Return(u)
              /\ UNCHANGED <<ch, sent, crashed>>
         ELSE /\ IF imgCache[CacheKey(u)] # NoImg
                 THEN /\ uimg' = [uimg EXCEPT ![u] = imgCache[CacheKey(u)]]
                      /\ upc' = [upc EXCEPT ![u] = "create"]
                 ELSE /\ uimg' = [uimg EXCEPT ![u] = Resize(Image(u[1], u[2], d))]
                      /\ upc' = [upc EXCEPT ![u] = "cacheset"]
              /\ UNCHANGED <<ch, sent, crashed>>
    /\ UNCHANGED <<pc, method, status, files, idx, results, chClosed, response,
                   sem, wgCount, wgWaiters, wgSema, imgCache, disk>>

\* Mutant of DecodeAndLookup: the cache is populated before the decode
\* error is looked at.
DecodeAndLookup_CacheBeforeErrorCheck(u) ==
    /\ ~crashed
    /\ upc[u] = "decode"
    /\ \E ok \in BOOLEAN, d \in Dims :
         IF ~ok
         THEN /\ CanSend(u[1])
              /\ Send(u, UploadResult(Header(u).Filename, "failed", ErrDecode))
              /\ Return(u)
              /\ imgCache' = [imgCache EXCEPT ![CacheKey(u)] =
                                IF @ = NoImg THEN Image(u[1], u[2], d) ELSE @]
         ELSE /\ IF imgCache[CacheKey(u)] # NoImg
                 THEN /\ uimg' = [uimg EXCEPT ![u] = imgCache[CacheKey(u)]]
                      /\ upc' = [upc EXCEPT ![u] = "create"]
                 ELSE /\ uimg' = [uimg EXCEPT ![u] = Resize(Image(u[1], u[2], d))]
                      /\ upc' = [upc EXCEPT ![u] = "cacheset"]
              /\ UNCHANGED <<ch, sent, crashed, imgCache>>
    /\ UNCHANGED <<pc, method, status, files, idx, results, chClosed, response,
                   sem, wgCount, wgWaiters, wgSema, disk>>

\* Mutant of DecodeAndLookup: a cache hit is found but the worker goes on
\* with its own image.
DecodeAndLookup_IgnoresCache(u) ==
    /\ ~crashed
    /\ upc[u] = "decode"
    /\ \E ok \in BOOLEAN, d \in Dims :
         IF ~ok
         THEN /\ CanSend(u[1])
              /\ Send(u, UploadResult(Header(u).Filename, "failed", ErrDecode))
              /\ Return(u)
         ELSE /\ uimg' = [uimg EXCEPT ![u] = Resize(Image(u[1], u[2], d))]
              /\ upc' = [upc EXCEPT ![u] =
                            IF imgCache[CacheKey(u)] # NoImg THEN "create"
                            ELSE "cacheset"]
              /\ UNCHANGED <<ch, sent, crashed>>
    /\ UNCHANGED <<pc, method, status, files, idx, results, chClosed, response, sem,
                   wgCount, wgWaiters, wgSema, imgCache, disk>>

\* Lines 62-74: image.Decode and the failed outcome on a decode error; else
\* the resize to the target dimensions and imgCache.Get, whose hit replaces
\* img.
DecodeAndLookup(u) ==
    /\ ~crashed
    /\ upc[u] = "decode"
    /\ \E ok \in BOOLEAN, d \in Dims :
         IF ~ok
         THEN /\ CanSend(u[1])
              /\ Send(u, UploadResult(Header(u).Filename, "failed", ErrDecode))
              /\ Return(u)
         ELSE /\ IF imgCache[CacheKey(u)] # NoImg
                 THEN /\ uimg' = [uimg EXCEPT ![u] = imgCache[CacheKey(u)]]
                      /\ upc' = [upc EXCEPT ![u] = "create"]
                 ELSE /\ uimg' = [uimg EXCEPT ![u] = Resize(Image(u[1], u[2], d))]
                      /\ upc' = [upc EXCEPT ![u] = "cacheset"]
              /\ UNCHANGED <<ch, sent, crashed>>
    /\ UNCHANGED <<pc, method, status, files, idx, results, chClosed, response, sem,
                   wgCount, wgWaiters, wgSema, imgCache, disk>>

\* Mutant of CacheSet: the entry is added only if the key is still absent,
\* and the worker goes on with the image that is in the cache.
CacheSet_IfAbsent(u) ==
    /\ ~crashed
    /\ upc[u] = "cacheset"
    /\ IF imgCache[CacheKey(u)] # NoImg
       THEN /\ uimg' = [uimg EXCEPT ![u] = imgCache[CacheKey(u)]]
            /\ imgCache' = imgCache
       ELSE /\ imgCache' = [imgCache EXCEPT ![CacheKey(u)] = uimg[u]]
            /\ uimg' = uimg
    /\ upc' = [upc EXCEPT ![u] = "create"]
    /\ UNCHANGED <<pc, method, status, files, idx, results, ch, chClosed, response,
                   sem, wgCount, wgWaiters, wgSema, disk, crashed, sent>>

\* Lines 75-76: imgCache.Set after a miss, a call on the cache of its own.
CacheSet(u) ==
    /\ ~crashed
    /\ upc[u] = "cacheset"
    /\ imgCache' = [imgCache EXCEPT ![CacheKey(u)] = uimg[u]]
    /\ upc' = [upc EXCEPT ![u] = "create"]
    /\ UNCHANGED <<pc, method, status, files, idx, results, ch, chClosed, response,
                   uimg, sem, wgCount, wgWaiters, wgSema, disk, crashed, sent>>

\* Mutant of CreateAndEncode: the creation failure returns without sending
\* an outcome.
CreateAndEncode_SilentCreateFailure(u) ==
    /\ ~crashed
    /\ upc[u] = "create"
    /\ CanSend(u[1])
    /\ \E created \in BOOLEAN, encoded \in BOOLEAN :
         LET out == [name |-> UniqueName(u), data |-> NoImg, format |-> "none"]
             fmt == Encoder(ToLower(Ext(Header(u).Filename)))
         IN IF ~created
            THEN UNCHANGED <<ch, sent, crashed, disk>>
            ELSE IF ~encoded /\ fmt # "none"
            THEN /\ Send(u, UploadResult(Header(u).Filename, "failed", ErrEncode))
                 /\ disk' = disk \cup {out}
            ELSE /\ Send(u, UploadResult(UniqueName(u), "success", ""))
                 /\ disk' = disk \cup
                       {IF fmt = "none" THEN out
                        ELSE [out EXCEPT !.data = uimg[u], !.format = fmt]}
    /\ Return(u)
    /\ UNCHANGED <<pc, method, status, files, idx, results, chClosed, response,
                   sem, wgCount, wgWaiters, wgSema, imgCache>>

\* Mutant of CreateAndEncode: the image is encoded first and the output
\* file is created for the encoded bytes only.
CreateAndEncode_EncodeFirst(u) ==
    /\ ~crashed
    /\ upc[u] = "create"
    /\ CanSend(u[1])
    /\ \E created \in BOOLEAN, encoded \in BOOLEAN :
         LET out == [name |-> UniqueName(u), data |-> NoImg, format |-> "none"]
             fmt == Encoder(ToLower(Ext(Header(u).Filename)))
         IN IF ~encoded /\ fmt # "none"
            THEN /\ Send(u, UploadResult(Header(u).Filename, "failed", ErrEncode))
                 /\ disk' = disk
            ELSE IF ~created
            THEN /\ Send(u, UploadResult(Header(u).Filename, "failed", ErrCreate))
                 /\ disk' = disk
            ELSE /\ Send(u, UploadResult(UniqueName(u), "success", ""))
                 /\ disk' = disk \cup
                       {IF fmt = "none" THEN out
                        ELSE [out EXCEPT !.data = uimg[u], !.format = fmt]}
    /\ Return(u)
    /\ UNCHANGED <<pc, method, status, files, idx, results, chClosed, response,
                   sem, wgCount, wgWaiters, wgSema, imgCache>>

\* Mutant of CreateAndEncode: a worker that fails after the cache step
\* deletes the entry of its key.
CreateAndEncode_RollsBackCache(u) ==
    /\ ~crashed
    /\ upc[u] = "create"
    /\ CanSend(u[1])
    /\ \E created \in BOOLEAN, encoded \in BOOLEAN :
         LET out == [name |-> UniqueName(u), data |-> NoImg, format |-> "none"]
             fmt == Encoder(ToLower(Ext(Header(u).Filename)))
         IN IF ~created
            THEN /\ Send(u, UploadResult(Header(u).Filename, "failed", ErrCreate))
                 /\ disk' = disk
                 /\ imgCache' = [imgCache EXCEPT ![CacheKey(u)] = NoImg]
            ELSE IF ~encoded /\ fmt # "none"
            THEN /\ Send(u, UploadResult(Header(u).Filename, "failed", ErrEncode))
                 /\ disk' = disk \cup {out}
                 /\ imgCache' = [imgCache EXCEPT ![CacheKey(u)] = NoImg]
            ELSE /\ Send(u, UploadResult(UniqueName(u), "success", ""))
                 /\ disk' = disk \cup
                       {IF fmt = "none" THEN out
                        ELSE [out EXCEPT !.data = uimg[u], !.format = fmt]}
                 /\ imgCache' = imgCache
    /\ Return(u)
    /\ UNCHANGED <<pc, method, status, files, idx, results, chClosed, response,
                   sem, wgCount, wgWaiters, wgSema>>

\* Lines 79-99: the unique name and os.Create, with the failed outcome when
\* the file cannot be created; then the encoder writes img into the created
\* file, with the failed outcome on an encoder error and else the success
\* outcome carrying the unique name.
CreateAndEncode(u) ==
    /\ ~crashed
    /\ upc[u] = "create"
    /\ CanSend(u[1])
    /\ \E created \in BOOLEAN, encoded \in BOOLEAN :
         LET out == [name |-> UniqueName(u), data |-> NoImg, format |-> "none"]
             fmt == Encoder(ToLower(Ext(Header(u).Filename)))
         IN IF ~created
            THEN /\ Send(u, UploadResult(Header(u).Filename, "failed", ErrCreate))
                 /\ disk' = disk
            ELSE IF ~encoded /\ fmt # "none"
            THEN /\ Send(u, UploadResult(Header(u).Filename, "failed", ErrEncode))
                 /\ disk' = disk \cup {out}
            ELSE /\ Send(u, UploadResult(UniqueName(u), "success", ""))
                 /\ disk' = disk \cup
                       {IF fmt = "none" THEN out
                        ELSE [out EXCEPT !.data = uimg[u], !.format = fmt]}
    /\ Return(u)
    /\ UNCHANGED <<pc, method, status, files, idx, results, chClosed, response,
                   sem, wgCount, wgWaiters, wgSema, imgCache>>

\* Mutant of Release: the slot is given back on the success path only.
Release_OnlyOnSuccess(u) ==
    /\ ~crashed
    /\ upc[u] = "release"
    /\ sem' = IF sent[u].Status = "success" THEN sem - 1 ELSE sem
    /\ upc' = [upc EXCEPT ![u] = "wgdone"]
    /\ UNCHANGED <<pc, method, status, files, idx, results, ch, chClosed, response,
                   uimg, wgCount, wgWaiters, wgSema, imgCache, disk, crashed, sent>>

\* Line 60, the deferred <-sem: runs first of the two deferred calls, after
\* the outcome has been sent.
Release(u) ==
    /\ ~crashed
    /\ upc[u] = "release"
    /\ sem' = sem - 1
    /\ upc' = [upc EXCEPT ![u] = "wgdone"]
    /\ UNCHANGED <<pc, method, status, files, idx, results, ch, chClosed, response,
                   uimg, wgCount, wgWaiters, wgSema, imgCache, disk, crashed, sent>>

\* Line 59, the deferred wg.Done(): the atomic decrement.  The goroutine
\* that brings the counter to zero with waiters registered goes on to wake
\* them.
WgDone(u) ==
    /\ ~crashed
    /\ upc[u] = "wgdone"
    /\ wgCount' = wgCount - 1
    /\ upc' = [upc EXCEPT ![u] =
                 IF wgCount - 1 > 0 \/ wgWaiters = 0 THEN "finished" ELSE "wgwake"]
    /\ UNCHANGED <<pc, method, status, files, idx, results, ch, chClosed, response,
                   uimg, sem, wgWaiters, wgSema, imgCache, disk, crashed, sent>>

\* wg.Done() continued: the state is checked against the value the
\* decrement produced (counter zero; the waiter count cannot move while the
\* counter is zero), a mismatch panics in the worker goroutine and ends the
\* process; else the state is reset and one permit per waiter is released.
WgDoneWake(u) ==
    /\ ~crashed
    /\ upc[u] = "wgwake"
    /\ IF wgCount # 0
       THEN /\ crashed' = TRUE
            /\ UNCHANGED <<wgWaiters, wgSema, upc>>
       ELSE /\ wgSema' = wgSema + wgWaiters
            /\ wgWaiters' = 0
            /\ upc' = [upc EXCEPT ![u] = "finished"]
            /\ crashed' = crashed
    /\ UNCHANGED <<pc, method, status, files, idx, results, ch, chClosed, response,
                   uimg, sem, wgCount, imgCache, disk, sent>>

\* ---------------------------------------------------------------- the cache
\* An entry reaches its expiration (5 minutes) or is swept by the janitor.
Expire(k) ==
    /\ ~crashed
    /\ imgCache[k] # NoImg
    /\ imgCache' = [imgCache EXCEPT ![k] = NoImg]
    /\ UNCHANGED <<pc, method, status, files, idx, results, ch, chClosed, response,
                   upc, uimg, sem, wgCount, wgWaiters, wgSema, disk, crashed, sent>>

\* ----------------------------------------------------------- specification
Next ==
    \/ \E r \in Reqs : HandlerEntry(r)
    \/ \E r \in Reqs : LoopBody(r)
    \/ \E r \in Reqs : Dispatch(r)
    \/ \E r \in Reqs : WgWait(r)
    \/ \E r \in Reqs : WgWaitResume(r)
    \/ \E r \in Reqs : Collect(r)
    \/ \E u \in Units : DecodeAndLookup(u)
    \/ \E u \in Units : CacheSet(u)
    \/ \E u \in Units : CreateAndEncode(u)
    \/ \E u \in Units : Release(u)
    \/ \E u \in Units : WgDone(u)
    \/ \E u \in Units : WgDoneWake(u)
    \/ \E k \in CacheKeys : Expire(k)

Spec == Init /\ [][Next]_vars

\* ------------------------------------------------- vocabulary of the claims
UnitsOf(r) == {u \in Units : u[1] = r /\ u[2] <= Len(files[r])}

\* The worker of u has been started and has not yet run its deferred <-sem.
HoldsTicket(u) == upc[u] \in {"decode", "cacheset", "create", "release"}
\* The worker of u has been started (its ticket acquired by the handler).
WasDispatched(u) ==
    upc[u] \in {"decode", "cacheset", "create", "release", "wgdone", "wgwake",
                "finished"}
\* The worker of u has sent its outcome.
HasSent(u) == upc[u] \in {"release", "wgdone", "wgwake", "finished"}
WasRejected(u) == upc[u] = "rejected"

\* The handler of r has left, with or without a response.
Ended(r) == pc[r] \in {"done", "rejected", "panicked"}

\* ---------------------------------------------------------------------- C1
\* C1: every returned result holds exactly one outcome per submitted file,
\* and at every moment the outcomes of a request (in results and in the
\* channel) are exactly one per rejected file plus one per worker that has
\* reached its send, on every exit path of the worker.
C1_OneOutcomePerFile ==
    \A r \in Reqs :
        /\ pc[r] = "done" => Len(response[r]) = Len(files[r])
        /\ Len(results[r]) + Len(ch[r]) =
              Cardinality({u \in UnitsOf(r) : WasRejected(u) \/ HasSent(u)})
        /\ \A u \in UnitsOf(r) : HasSent(u) <=> sent[u] # NoResult

\* A returned result of two files, one rejected and one processed, while
\* another request has dispatched a unit.
C1_Witness ==
    \E r \in Reqs :
        /\ pc[r] = "done"
        /\ Len(files[r]) = 2
        /\ \E u, v \in UnitsOf(r) : WasRejected(u) /\ HasSent(v)
        /\ \E q \in Reqs \ {r} : \E u \in UnitsOf(q) : WasDispatched(u)

\* ---------------------------------------------------------------------- C2
\* C2: over all requests together, the workers started and not yet released
\* never number more than CONCURRENT_LIMIT.
C2_GlobalLimit ==
    /\ Cardinality({u \in Units : HoldsTicket(u)}) <= CONCURRENT_LIMIT
    /\ sem <= CONCURRENT_LIMIT

\* The gate is saturated by workers of two requests while a handler waits
\* at the semaphore send.
C2_Witness ==
    /\ Cardinality({u \in Units : HoldsTicket(u)}) = CONCURRENT_LIMIT
    /\ \E u, v \in Units : u[1] # v[1] /\ HoldsTicket(u) /\ HoldsTicket(v)
    /\ \E r \in Reqs : pc[r] = "acquire"

\* ---------------------------------------------------------------------- C3
\* C3: the semaphore holds exactly one element per dispatched worker that
\* has not yet released, and none once every request has ended.
C3_TicketsPaired ==
    /\ sem = Cardinality({u \in Units : HoldsTicket(u)})
    /\ (\A r \in Reqs : Ended(r)) => sem = 0

\* Every request has ended, and workers left by each of the four exits.
C3_Witness ==
    /\ \A r \in Reqs : Ended(r)
    /\ sem = 0
    /\ \E u \in Units : sent[u].Error = ErrDecode
    /\ \E u \in Units : sent[u].Error \in {ErrCreate, ErrEncode}
    /\ \E u \in Units : sent[u].Status = "success"

\* ---------------------------------------------------------------------- C4
\* C4: the channel of a request is closed and drained, and its response
\* written, only when every file of the request was rejected or has had its
\* outcome sent by its worker.
C4_NoPartialResult ==
    \A r \in Reqs :
        (pc[r] \in {"collect", "done"} \/ chClosed[r]) =>
            \A u \in UnitsOf(r) : WasRejected(u) \/ HasSent(u)

\* A request has responded with the outcomes of two workers while a worker
\* of another request is still running.
C4_Witness ==
    \E r \in Reqs :
        /\ pc[r] = "done"
        /\ Cardinality({u \in UnitsOf(r) : HasSent(u)}) = 2
        /\ \E u \in Units : u[1] # r /\ upc[u] \in {"decode", "cacheset", "create"}

\* ---------------------------------------------------------------------- C5
\* C5: every request eventually returns its result.  A handler that has
\* panicked, or a process that has died, never returns one, so the claim
\* requires that no request is ever lost: no handler panics inside
\* wg.Add or wg.Wait and no worker panic ends the process.
C5_NoRequestLost ==
    /\ ~crashed
    /\ \A r \in Reqs : pc[r] # "panicked"

\* ---------------------------------------------------------------------- C6
\* A header that fails one of the three synchronous checks, stated on the
\* header's fields.
AllowedExts == {".jpg", ".JPG", ".jpeg", ".JPEG", ".png", ".PNG"}
FailsValidation(h) ==
    \/ ~h.openable
    \/ h.Size > MAX_UPLOAD_SIZE
    \/ h.Filename.ext \notin AllowedExts

\* The step of the loop of r that records a synchronous rejection.
RecordsRejection(r) ==
    /\ pc[r] = "loop"
    /\ Len(results'[r]) = Len(results[r]) + 1

\* C6: a file that fails synchronous validation is never dispatched: no
\* worker is ever started for it, and the step that records its outcome
\* leaves the semaphore, the WaitGroup, the cache, the channel, the disk and
\* every worker untouched.
C6_RejectedNeverDispatched ==
    /\ [](\A r \in Reqs : \A u \in UnitsOf(r) :
            FailsValidation(files[r][u[2]]) =>
                /\ upc[u] \in {"none", "rejected"}
                /\ sent[u] = NoResult
                /\ uimg[u] = NoImg)
    /\ [][\A r \in Reqs : RecordsRejection(r) =>
            /\ FailsValidation(files[r][idx[r]])
            /\ upc'[<<r, idx[r]>>] = "rejected"
            /\ \A u \in Units : u # <<r, idx[r]>> => upc'[u] = upc[u]
            /\ pc'[r] = "loop"
            /\ UNCHANGED <<sem, wgCount, wgWaiters, wgSema, imgCache, ch,
                           uimg, disk, sent>>]_vars

\* A rejection has been recorded after the same request dispatched a
\* worker that holds a ticket and has populated the cache.
C6_Witness ==
    \E r \in Reqs :
        /\ WasRejected(<<r, 2>>)
        /\ upc[<<r, 1>>] = "create"
        /\ sem > 0
        /\ wgCount > 0
        /\ \E k \in CacheKeys : imgCache[k] # NoImg

\* ---------------------------------------------------------------------- C7
\* The outcome recorded for the rejected file i of request r: rejections
\* are appended to results in the order of the files.
RejectionOf(r, i) ==
    results[r][Cardinality({j \in 1 .. i : WasRejected(<<r, j>>)})]

\* C7: the recorded reason is that of the first failing check in the order
\* open, size, extension; a header that passes all three (its extension
\* compared without regard to case) is not rejected.
C7_FirstFailingCheck ==
    \A r \in Reqs : \A u \in UnitsOf(r) :
        LET h == files[r][u[2]]
        IN /\ WasRejected(u) =>
                /\ RejectionOf(r, u[2]).FileName = h.Filename
                /\ RejectionOf(r, u[2]).Status = "failed"
                /\ RejectionOf(r, u[2]).Error =
                      IF ~h.openable THEN ErrOpen
                      ELSE IF h.Size > MAX_UPLOAD_SIZE THEN ErrSize
                      ELSE ErrExt
                /\ FailsValidation(h)
           /\ (u[2] < idx[r] /\ FailsValidation(h)) => WasRejected(u)

\* One request has recorded the size reason for an openable, oversized
\* ".gif" and the open reason for an unopenable, oversized ".gif".
C7_Witness ==
    \E r \in Reqs :
        /\ Len(files[r]) = 2
        /\ WasRejected(<<r, 1>>) /\ WasRejected(<<r, 2>>)
        /\ \E i, j \in 1 .. 2 :
              /\ files[r][i].openable /\ files[r][i].Size > MAX_UPLOAD_SIZE
              /\ files[r][i].Filename.ext = ".gif"
              /\ RejectionOf(r, i).Error = ErrSize
              /\ ~files[r][j].openable /\ files[r][j].Size > MAX_UPLOAD_SIZE
              /\ files[r][j].Filename.ext = ".gif"
              /\ RejectionOf(r, j).Error = ErrOpen

\* ---------------------------------------------------------------------- C8
\* The worker of u has left by one of its three failure exits: it has
\* returned and no encoded file of its unique name exists.
EndedInFailure(u) ==
    /\ HasSent(u)
    /\ ~\E f \in disk : f.name = UniqueName(u) /\ f.format # "none"

InChannel(u) ==
    /\ ~chClosed[u[1]]
    /\ \E k \in 1 .. Len(ch[u[1]]) : ch[u[1]][k] = sent[u]

\* C8 as stated: whenever the failed outcome of a worker has been emitted,
\* the worker's ticket has already been released.
C8_ReleasedBeforeEmitted ==
    \A u \in Units : sent[u].Status = "failed" => ~HoldsTicket(u)

\* C8 as amended: a worker that ends in a processing failure emits its
\* failed outcome to the result channel while it still holds its ticket (the
\* release is deferred and runs after the send), and the ticket is released
\* before the handler merges the outcome into the returned results.
C8_EmittedBeforeReleased ==
    \A r \in Reqs : \A u \in UnitsOf(r) :
        EndedInFailure(u) =>
            /\ sent[u].Status = "failed"
            /\ sent[u].Error \in {ErrDecode, ErrCreate, ErrEncode}
            /\ upc[u] = "release" => (HoldsTicket(u) /\ InChannel(u))
            /\ chClosed[r] => ~HoldsTicket(u)

\* A worker that failed to create its file has its outcome in the channel
\* and its ticket still held.
C8_Witness ==
    \E u \in Units :
        /\ upc[u] = "release"
        /\ sent[u].Error = ErrCreate
        /\ InChannel(u)
        /\ sem > 0

\* ---------------------------------------------------------------------- C9
\* C9: a request answered 405, 413 or 400 causes no processing: a request
\* of another method is answered 405, the answering step changes nothing
\* but the request's own position and status, and such a request never has
\* a file validated, a worker, an outcome, or a response body.
C9_RejectedRequestNoProcessing ==
    /\ [](\A r \in Reqs :
            /\ (method[r] \notin {"", "POST"}) => status[r] = 405
            /\ status[r] \in {405, 413, 400} =>
                  /\ pc[r] = "rejected"
                  /\ idx[r] = 1
                  /\ results[r] = <<>> /\ ch[r] = <<>> /\ response[r] = <<>>
                  /\ ~chClosed[r]
                  /\ \A i \in Idxs : upc[<<r, i>>] = "none" /\ sent[<<r, i>>] = NoResult)
    /\ [][\A r \in Reqs : (status[r] = 0 /\ status'[r] \in {405, 413, 400}) =>
            UNCHANGED <<sem, wgCount, wgWaiters, wgSema, imgCache, disk, upc,
                        uimg, results, ch, chClosed, sent, idx>>]_vars

\* A request was turned away with 413 while a worker of another request
\* holds a ticket, the barrier is raised and the cache is populated.
C9_Witness ==
    \E r \in Reqs :
        /\ status[r] = 413
        /\ sem > 0
        /\ wgCount > 0
        /\ \E k \in CacheKeys : imgCache[k] # NoImg

\* --------------------------------------------------------------------- C10
\* The step in which the worker of u leaves on a decode error.
DecodeFails(u) == upc[u] = "decode" /\ upc'[u] = "release"

\* C10: a worker whose decode fails sends the failed outcome with the
\* decoding reason and the original file name, whatever the cache holds,
\* and that step neither changes the cache, nor takes an image from it, nor
\* creates a file; the outcome stays what it is and no file of the worker's
\* unique name ever exists.
C10_DecodeFailure ==
    /\ [][\A u \in Units : DecodeFails(u) =>
            /\ sent'[u] = UploadResult(Header(u).Filename, "failed", ErrDecode)
            /\ ch'[u[1]] = Append(ch[u[1]], sent'[u])
            /\ imgCache' = imgCache
            /\ uimg'[u] = NoImg
            /\ disk' = disk]_vars
    /\ [][\A u \in Units : sent[u] # NoResult => sent'[u] = sent[u]]_vars
    /\ [](\A r \in Reqs : \A u \in UnitsOf(r) :
            sent[u].Error = ErrDecode =>
                /\ sent[u].Status = "failed"
                /\ sent[u].FileName = Header(u).Filename
                /\ ~\E f \in disk : f.name = UniqueName(u))

\* A worker has failed to decode a file whose name the cache holds an
\* entry for, put there by another worker.
C10_Witness ==
    \E u \in Units :
        /\ u[2] <= Len(files[u[1]])
        /\ upc[u] = "release"
        /\ sent[u].Error = ErrDecode
        /\ imgCache[CacheKey(u)] # NoImg

\* --------------------------------------------------------------------- C11
\* Every outcome a request holds: in results, in the channel, in the
\* response.
OutcomesOf(r) ==
    {results[r][k] : k \in 1 .. Len(results[r])}
        \cup {ch[r][k] : k \in 1 .. Len(ch[r])}
        \cup {response[r][k] : k \in 1 .. Len(response[r])}

SubmittedNames ==
    UNION {{files[r][i].Filename : i \in 1 .. Len(files[r])} : r \in Reqs}

\* C11: a success outcome carries the generated unique name of its worker,
\* which is no submitted name; a failed outcome carries the original name of
\* its file; and no two workers' success outcomes carry the same name, also
\* when their files share the original name.
C11_UniqueSuccessNames ==
    /\ \A r \in Reqs : \A u \in UnitsOf(r) :
          /\ sent[u].Status = "success" =>
                /\ sent[u].FileName = UniqueName(u)
                /\ sent[u].FileName \notin SubmittedNames
          /\ sent[u].Status = "failed" => sent[u].FileName = Header(u).Filename
    /\ \A r \in Reqs : \A o \in OutcomesOf(r) :
          /\ o.Status \in {"success", "failed"}
          /\ o.Status = "success" => o.FileName \notin SubmittedNames
          /\ o.Status = "failed" =>
                \E i \in 1 .. Len(files[r]) : o.FileName = files[r][i].Filename
    /\ \A u, v \in Units :
          (u # v /\ sent[u].Status = "success" /\ sent[v].Status = "success")
              => sent[u].FileName # sent[v].FileName

\* Workers of two requests, and two workers of one request, have succeeded
\* on files that share the original name.
C11_Witness ==
    \E u, v, w \in Units :
        /\ u[1] = v[1] /\ u # v /\ w[1] # u[1]
        /\ \A x \in {u, v, w} : sent[x].Status = "success"
        /\ Header(u).Filename = Header(v).Filename
        /\ Header(u).Filename = Header(w).Filename

\* --------------------------------------------------------------------- C12
\* The units of all the requests: one per submitted file.
AllUnits == UNION {UnitsOf(r) : r \in Reqs}

\* The image the worker of u decoded itself, resized to the target bounds.
OwnImage(u, img) == img.src = u /\ img.dx = TargetDx /\ img.dy = TargetDy

\* The file the worker of u wrote, with encoded content.
Persisted(u) == {f \in disk : f.name = UniqueName(u) /\ f.format # "none"}

\* C12: at the cache step the key is the original file name. On a hit the
\* worker goes on with the cached image and the cache is left as it is; on
\* a miss it stores its own image under the key; what it then encodes into
\* its output file is the image it left the cache step with. So a persisted
\* image is the worker's own or the one an upload of the same name cached.
C12_CachedImagePersisted ==
    /\ [][\A u \in Units :
            /\ (upc[u] = "decode" /\ upc'[u] = "create") =>
                  /\ imgCache[CacheKey(u)] # NoImg
                  /\ uimg'[u] = imgCache[CacheKey(u)]
                  /\ imgCache' = imgCache
            /\ (upc[u] = "decode" /\ upc'[u] = "cacheset") =>
                  /\ imgCache[CacheKey(u)] = NoImg
                  /\ OwnImage(u, uimg'[u])
            /\ (upc[u] = "cacheset" /\ upc'[u] = "create") =>
                  /\ OwnImage(u, uimg[u])
                  /\ imgCache'[CacheKey(u)] = uimg[u]
                  /\ uimg'[u] = uimg[u]
            /\ (upc[u] = "create" /\ upc'[u] = "create") => uimg'[u] = uimg[u]
            /\ (upc[u] = "create" /\ sent'[u].Status = "success") =>
                  \E f \in disk' : f.name = UniqueName(u) /\ f.data = uimg[u]
         ]_vars
    /\ [](\A v \in AllUnits : \A f \in Persisted(v) :
            \E u \in AllUnits :
                /\ WasDispatched(u)
                /\ CacheKey(u) = CacheKey(v)
                /\ OwnImage(u, f.data))

\* The second of two uploads of one name, sent in another request after the
\* first had ended, has persisted the image the first one cached.
C12_Witness ==
    \E u, v \in AllUnits :
        /\ u[1] # v[1]
        /\ CacheKey(u) = CacheKey(v)
        /\ sent[u].Status = "success" /\ sent[v].Status = "success"
        /\ \E f \in Persisted(v) : OwnImage(u, f.data)
        /\ \E f \in Persisted(u) : OwnImage(u, f.data)

\* --------------------------------------------------------------------- C13
\* The submitted name an outcome's name stands for: the name itself, or the
\* name a generated one was derived from.
OriginalOf(name) == FileName(name.stem, 0, name.ext)

\* The files of request r an outcome can be an outcome of, going by its name.
FilesNamed(r, o) ==
    {i \in 1 .. Len(files[r]) : files[r][i].Filename = OriginalOf(o.FileName)}

\* C13: in every response, also for a batch in which several files share
\* the original name, each outcome's file name maps back to exactly one
\* submitted file.
C13_OutcomeNamesOneFile ==
    \A r \in Reqs :
        pc[r] = "done" =>
            \A k \in 1 .. Len(response[r]) :
                Cardinality(FilesNamed(r, response[r][k])) = 1

\* --------------------------------------------------------------------- C14
\* The output file of the worker of u, whatever it holds.
Created(u) == {f \in disk : f.name = UniqueName(u)}

WorkerOrder ==
    {<<"none", "rejected">>, <<"none", "decode">>, <<"decode", "cacheset">>,
     <<"decode", "create">>, <<"decode", "release">>, <<"cacheset", "create">>,
     <<"create", "release">>, <<"release", "wgdone">>, <<"wgdone", "wgwake">>,
     <<"wgdone", "finished">>, <<"wgwake", "finished">>}

SyncReasons == {ErrOpen, ErrSize, ErrExt}

\* How many of the first i files of r were rejected by the loop.
RejectedUpTo(r, i) == Cardinality({j \in 1 .. i : WasRejected(<<r, j>>)})

\* C15: the returned collection holds the synchronous rejections first, in
\* the order the files were submitted, and after them the workers' outcomes
\* in the order they were sent to the channel; no worker's outcome precedes
\* a rejection.
C15_RejectionsThenSendOrder ==
    /\ [][\A r \in Reqs :
            /\ (pc[r] = "collect" /\ pc'[r] = "done") =>
                  response'[r] = results[r] \o ch[r]
            /\ (ch'[r] # ch[r] /\ pc'[r] # "done") =>
                  \E u \in UnitsOf(r) :
                      /\ sent[u] = NoResult
                      /\ ch'[r] = Append(ch[r], sent'[u])
         ]_vars
    /\ [](\A r \in Reqs :
            /\ pc[r] # "done" =>
                  \A k \in 1 .. Len(results[r]) : results[r][k].Error \in SyncReasons
            /\ pc[r] = "done" =>
                  \A k \in 1 .. Len(response[r]) :
                      response[r][k].Error \in SyncReasons
                          <=> k <= RejectedUpTo(r, Len(files[r]))
            /\ \A u \in UnitsOf(r) :
                  WasRejected(u) =>
                      results[r][RejectedUpTo(r, u[2])] =
                          UploadResult(Header(u).Filename, "failed",
                                       ValidationError(Header(u))))

\* A response whose first entry is the rejection of the second file and
\* whose second entry is the outcome of the worker of the first file.
C15_Witness ==
    \E r \in Reqs :
        /\ pc[r] = "done"
        /\ Len(files[r]) = 2
        /\ upc[<<r, 1>>] = "finished"
        /\ WasRejected(<<r, 2>>)
        /\ response[r][1].Error \in SyncReasons
        /\ response[r][2] = sent[<<r, 1>>]

\* --------------------------------------------------------------------- C16
\* Every worker the handler of r started has returned, its wg.Done() done.
OwnUnitsFinished(r) ==
    /\ \E u \in UnitsOf(r) : upc[u] = "finished"
    /\ \A u \in UnitsOf(r) : upc[u] \in {"rejected", "finished"}

\* The handler of r has left its loop and is about to call wg.Wait().
AtWait(r) == pc[r] = "loop" /\ idx[r] > Len(files[r])

\* C16: the barrier of a request depends on its own workers only: once all
\* of them have finished, its wg.Wait() returns (at once when it is yet to
\* be called, by a pending permit and without a panic when it sleeps), also
\* while workers of other requests are running.
C16_BarrierOfOwnUnits ==
    \A r \in Reqs :
        (~crashed /\ OwnUnitsFinished(r)) =>
            /\ AtWait(r) => wgCount = 0
            /\ pc[r] = "sleeping" =>
                  wgSema > 0 /\ wgCount = 0 /\ wgWaiters = 0

\* --------------------------------------------------------------------- C17
\* C17: the process-wide WaitGroup is used within its contract: no wg.Add(1)
\* takes the counter up from zero while a request is blocked in wg.Wait()
\* or has not yet returned from it.
C17_NoAddDuringWait ==
    [][(wgCount = 0 /\ wgCount' = 1) => \A q \in Reqs : pc[q] # "sleeping"]_vars

\* --------------------------------------------------------------------- C18
\* The worker of u has passed imgCache.Set with its own image.
HasPopulated(u) ==
    upc[u] \in {"create", "release", "wgdone", "wgwake", "finished"}

\* C18 as stated: lookup-or-populate is atomic. A worker that has missed and
\* is about to populate still finds the key absent, and no second worker is
\* about to populate the same key.
C18_AtomicLookupOrPopulate ==
    \A u \in AllUnits :
        upc[u] = "cacheset" =>
            /\ imgCache[CacheKey(u)] = NoImg
            /\ \A v \in AllUnits :
                  (v # u /\ CacheKey(v) = CacheKey(u)) => upc[v] # "cacheset"

\* C18, amended: Get and Set are single operations of the cache, but a
\* worker that has missed stores its own image under the key whatever the
\* cache holds by then, and goes on with its own image. An entry is always
\* the own image of a worker of that name that has passed its Set, and the
\* image a worker holds at file creation is its own or such an entry.
C18_LookupThenPopulate ==
    /\ [][\A u \in Units :
            (upc[u] = "cacheset" /\ upc'[u] # "cacheset") =>
                /\ imgCache' = [imgCache EXCEPT ![CacheKey(u)] = uimg[u]]
                /\ OwnImage(u, uimg'[u])
         ]_vars
    /\ [](/\ \A k \in CacheKeys :
               imgCache[k] # NoImg =>
                   \E v \in AllUnits :
                       /\ CacheKey(v) = k
                       /\ HasPopulated(v)
                       /\ OwnImage(v, imgCache[k])
          /\ \A u \in AllUnits :
               /\ upc[u] = "cacheset" => OwnImage(u, uimg[u])
               /\ upc[u] = "create" =>
                     \E v \in AllUnits :
                         /\ CacheKey(v) = CacheKey(u)
                         /\ HasPopulated(v)
                         /\ OwnImage(v, uimg[u]))

\* Two workers of one name have both missed: one has populated the key and
\* the other is about to overwrite the entry with its own image.
C18_Witness ==
    \E u, v \in AllUnits :
        /\ u # v
        /\ CacheKey(u) = CacheKey(v)
        /\ upc[u] = "cacheset"
        /\ HasPopulated(v)
        /\ OwnImage(v, imgCache[CacheKey(u)])

\* --------------------------------------------------------------------- C19
\* A step that only lets cache entries expire: nothing else moves.
OnlyExpiry ==
    UNCHANGED <<pc, method, status, files, idx, results, ch, chClosed, response,
                upc, uimg, sem, wgCount, wgWaiters, wgSema, disk, crashed, sent>>

\* C19: the cache is read or populated before the output file is created
\* and is never rolled back. A worker reaches file creation with an entry
\* under its original name in the cache; an entry leaves the cache by
\* expiry only; the step in which a worker ends with the creation or the
\* encode failure leaves the cache as it is. So a later upload of the name
\* finds, until expiry, the image of the failed worker.
C19_CacheNotRolledBack ==
    [][/\ \A u \in Units :
            /\ (upc[u] # "create" /\ upc'[u] = "create") =>
                  imgCache'[CacheKey(u)] # NoImg
            /\ (upc[u] = "create" /\ upc'[u] # "create") => imgCache' = imgCache
       /\ (\E k \in CacheKeys : imgCache[k] # NoImg /\ imgCache'[k] = NoImg)
             => OnlyExpiry
      ]_vars

\* A worker that populated the cache has ended with the creation or the
\* encode failure, and a later upload of the same name in another request
\* has persisted that worker's image.
C19_Witness ==
    \E u, v \in AllUnits :
        /\ u[1] # v[1]
        /\ CacheKey(u) = CacheKey(v)
        /\ sent[u].Error \in {ErrCreate, ErrEncode}
        /\ sent[v].Status = "success"
        /\ \E f \in Persisted(v) : OwnImage(u, f.data)

\* --------------------------------------------------------------------- C20
\* The worker of u has been started and has not yet sent its outcome.
BeforeSend(u) == upc[u] \in {"decode", "cacheset", "create"}

\* C20: the result channel is never misused. Its capacity, the number of
\* submitted files, is at least the number of workers started, the buffer
\* never holds more than the capacity, a worker about to send finds room
\* and the channel open, a worker sends before it signals the WaitGroup,
\* and no worker sends on, or panics on, a closed channel.
C20_ChannelNeverMisused ==
    /\ [](\A r \in Reqs :
            /\ Cardinality({u \in UnitsOf(r) : WasDispatched(u)}) <= Cap(r)
            /\ Len(ch[r]) <= Cap(r)
            /\ \A u \in UnitsOf(r) :
                  /\ BeforeSend(u) =>
                        ~chClosed[r] /\ Len(ch[r]) < Cap(r) /\ CanSend(r)
                  /\ upc[u] \in {"wgdone", "wgwake", "finished"} =>
                        sent[u] # NoResult)
    /\ [][/\ \A u \in Units :
               sent'[u] # sent[u] =>
                   /\ BeforeSend(u)
                   /\ ~chClosed[u[1]] /\ ~chClosed'[u[1]]
                   /\ ch'[u[1]] = Append(ch[u[1]], sent'[u])
          /\ (crashed' /\ ~crashed) => \E u \in Units : upc[u] = "wgwake"
         ]_vars

\* The buffer of a request with two workers is full: both have sent, the
\* handler has not yet closed the channel.
C20_Witness ==
    \E r \in Reqs :
        /\ Len(files[r]) = 2
        /\ Len(ch[r]) = Cap(r)
        /\ ~chClosed[r]
        /\ \A u \in UnitsOf(r) : HasSent(u)

====
